---- MODULE Spec2Model ----
(***************************************************************************)
(* Model of exchange-autodiscover (src/lib/index.js): one discovery call,  *)
(* from the synchronous prologue of module.exports through the DNS SRV     *)
(* lookup, the race of the HTTP attempts under Promise.any, the parsing    *)
(* and extraction of the winning body, and the delivery of the result to   *)
(* the promise and to the callback.                                        *)
(***************************************************************************)
EXTENDS Integers, Sequences, FiniteSets, TLC

(***************************************************************************)
(* Bounds and input alphabets.                                             *)
(***************************************************************************)
\* longest requested-settings list handed to the SOAP builder
MaxSettings == 3
\* longest tag or attribute name handed to removePrefix
MaxNameLen == 4
\* most userSetting entries in a response body
MaxEntries == 3
\* most SRV records in a zone when only the expansion of the domains is run
MaxRecords == 2

EWS_URL_SETTING == "ExternalEwsUrl"
EWS_VERSION_SETTING == "ExternalEwsVersion"

\* JavaScript values: undefined, booleans, strings, arrays
Undefined == [t |-> "undefined"]
Null == [t |-> "null"]
Bool(b) == [t |-> "boolean", v |-> b]
Str(s) == [t |-> "string", v |-> s]
Arr(s) == [t |-> "array", v |-> s]

\* JavaScript truthiness: undefined, false and '' are falsy, every array
\* (the empty one included) is truthy
Truthy(x) ==
  CASE x.t \in {"undefined", "null"} -> FALSE
    [] x.t = "boolean" -> x.v
    [] x.t = "string" -> x.v # ""
    [] x.t = "array" -> TRUE

\* a || b
JsOr(a, b) == IF Truthy(a) THEN a ELSE b

\* e-mail addresses are sequences of characters
Emails == { <<"u", "@", "a">> }
DnsNames == {<<"b">>}

RECURSIVE SeqsUpTo(_, _)
SeqsUpTo(S, n) ==
  IF n = 0 THEN {<<>>}
  ELSE LET shorter == SeqsUpTo(S, n - 1)
       IN shorter \cup {Append(s, x) : s \in {r \in shorter : Len(r) = n - 1}, x \in S}

\* String.prototype.indexOf for a one-character needle: 0-based, -1 if absent
IndexOf(s, c) ==
  IF \E i \in 1..Len(s) : s[i] = c
  THEN (CHOOSE i \in 1..Len(s) : s[i] = c /\ \A j \in 1..(i - 1) : s[j] # c) - 1
  ELSE -1

\* String.prototype.substr(from) for from >= 0
Substr(s, from) == IF from >= Len(s) THEN <<>> ELSE SubSeq(s, from + 1, Len(s))

(***************************************************************************)
(* SOAP request builder.                                                   *)
(***************************************************************************)
\* [].concat(x): an array argument is spread, any other value is one element
ArrayConcat(x) == IF x.t = "array" THEN x.v ELSE <<x>>

\* Array.prototype.indexOf with strict equality: 0-based, -1 if absent
ArrayIndexOf(a, x) ==
  IF \E i \in 1..Len(a) : a[i] = x
  THEN (CHOOSE i \in 1..Len(a) : a[i] = x /\ \A j \in 1..(i - 1) : a[j] # x) - 1
  ELSE -1

\* `${setting}`: the text a template literal renders for a value
TemplateText(x) == IF x.t = "undefined" THEN "undefined" ELSE x.v

\* wrapSettingsRequest that appends the EWS URL setting without looking for it
wrapSettingsRequest_AlwaysPush(settings) ==
  LET full == Append(ArrayConcat(settings), Str(EWS_URL_SETTING))
  IN [i \in 1..Len(full) |-> TemplateText(full[i])]

\* The <a:Setting> elements of the request, in document order, each by its text
wrapSettingsRequest(settings) ==
  LET list == ArrayConcat(settings)
      full == IF ArrayIndexOf(list, Str(EWS_URL_SETTING)) = -1
              THEN Append(list, Str(EWS_URL_SETTING))
              ELSE list
  IN [i \in 1..Len(full) |-> TemplateText(full[i])]

createAutodiscoverSoap(emailAddress, settings) ==
  [ version |-> "Exchange2010",
    action |-> "GetUserSettings",
    mailbox |-> emailAddress,
    requestedSettings |-> wrapSettingsRequest(settings) ]

(***************************************************************************)
(* DNS domain expander, XML normaliser and response extractor.             *)
(***************************************************************************)
\* the SRV name queried for a domain
SrvName(domain) == <<"_autodiscover._tcp.">> \o domain

\* queryDns whose catch hands the resolver's error on as a domain
queryDns_KeepsError(lookup) ==
  IF lookup.ok THEN [i \in 1..Len(lookup.records) |-> lookup.records[i].name]
  ELSE << <<"ENOTFOUND">> >>

\* queryDns: the names of the SRV records, or [] when the lookup fails
queryDns(lookup) ==
  IF lookup.ok THEN [i \in 1..Len(lookup.records) |-> lookup.records[i].name]
  ELSE <<>>

\* String.prototype.split(":"): the segments between the colons
RECURSIVE Split(_)
Split(s) ==
  IF IndexOf(s, ":") = -1 THEN <<s>>
  ELSE <<SubSeq(s, 1, IndexOf(s, ":"))>> \o Split(Substr(s, IndexOf(s, ":") + 1))

\* String.prototype.toLowerCase on one character
ToLowerCase(c) ==
  CASE c = "A" -> "a"
    [] c = "B" -> "b"
    [] c = "F" -> "f"
    [] OTHER -> c

\* removePrefix that keeps everything after the first colon
removePrefix_AfterFirstColon(string) ==
  LET withoutPrefix == IF IndexOf(string, ":") = -1 THEN string
                       ELSE Substr(string, IndexOf(string, ":") + 1)
  IN IF withoutPrefix = <<>> THEN <<>>
     ELSE <<ToLowerCase(withoutPrefix[1])>> \o Tail(withoutPrefix)

\* removePrefix: the second segment if there is a non-empty one, else the
\* first, with its first character in lower case
removePrefix(string) ==
  LET splitString == Split(string)
      withoutPrefix == IF Len(splitString) >= 2 /\ splitString[2] # <<>>
                       THEN splitString[2]
                       ELSE splitString[1]
  IN IF withoutPrefix = <<>> THEN <<>>
     ELSE <<ToLowerCase(withoutPrefix[1])>> \o Tail(withoutPrefix)

\* Response bodies a server may send
Entry(n, v) == [name |-> n, value |-> v]
UrlEntry == Entry(EWS_URL_SETTING, "https://ews")
VersionEntry == Entry(EWS_VERSION_SETTING, "15.0")
NotXml == [t |-> "text"]
NoPath == [t |-> "xml", path |-> FALSE, userSetting |-> Undefined]
Single(e) == [t |-> "xml", path |-> TRUE, userSetting |-> [t |-> "object", v |-> e]]
Many(es) == [t |-> "xml", path |-> TRUE, userSetting |-> Arr(es)]
Bodies == { NotXml, NoPath, Single(UrlEntry), Single(VersionEntry),
            Many(<<UrlEntry, VersionEntry>>) }

Error(name) == [t |-> "error", name |-> name, reasons |-> <<>>]
Ok(v) == [ok |-> TRUE, v |-> v]
Err(e) == [ok |-> FALSE, v |-> e]

\* xmlToJson: the parsed tree, or the parser's error on text that is not XML
xmlToJson(xmlString) ==
  IF xmlString.t = "xml"
  THEN Ok([path |-> xmlString.path, userSetting |-> xmlString.userSetting])
  ELSE Err(Error("ParseError"))

\* The fold where an entry never replaces a name already present
RECURSIVE FoldSettings_FirstWins(_, _)
FoldSettings_FirstWins(entries, acc) ==
  IF entries = <<>> THEN acc
  ELSE LET e == Head(entries)
           keys == DOMAIN acc \cup {e.name}
       IN FoldSettings_FirstWins(Tail(entries),
            [k \in keys |-> IF k \in DOMAIN acc THEN acc[k] ELSE e.value])

\* userSettings.reduce(...): the map built from the entries, last write wins
RECURSIVE FoldSettings(_, _)
FoldSettings(entries, acc) ==
  IF entries = <<>> THEN acc
  ELSE LET e == Head(entries)
           keys == DOMAIN acc \cup {e.name}
       IN FoldSettings(Tail(entries),
            [k \in keys |-> IF k = e.name THEN e.value ELSE acc[k]])

EmptyMap == [k \in {} |-> ""]

\* The extractor with a guarded walk: a missing node yields an empty map
ExtractSettings_Lenient(result) ==
  IF ~result.path THEN Ok([t |-> "map", v |-> EmptyMap])
  ELSE LET list == ArrayConcat(result.userSetting)
       IN IF \E i \in 1..Len(list) : list[i] = Undefined
          THEN Err(Error("TypeError"))
          ELSE Ok([t |-> "map", v |-> FoldSettings(
                    [i \in 1..Len(list) |->
                       IF result.userSetting.t = "array" THEN list[i] ELSE list[i].v],
                    EmptyMap)])

\* The second .then of autodiscoverDomains: walk the fixed path, coerce to an
\* array, fold into a map; a missing node raises a TypeError
ExtractSettings(result) ==
  IF ~result.path THEN Err(Error("TypeError"))
  ELSE LET list == ArrayConcat(result.userSetting)
       IN IF \E i \in 1..Len(list) : list[i] = Undefined
          THEN Err(Error("TypeError"))
          ELSE Ok([t |-> "map", v |-> FoldSettings(
                    [i \in 1..Len(list) |->
                       IF result.userSetting.t = "array" THEN list[i] ELSE list[i].v],
                    EmptyMap)])

\* settings[EWS_URL_SETTING]: the property's value, undefined if absent
GetProp(map, key) == IF key \in DOMAIN map.v THEN Str(map.v[key]) ELSE Undefined

\* requestedSettings ? settings : settings[EWS_URL_SETTING]
ShapeResult(requestedSettings, settings) ==
  IF Truthy(requestedSettings) THEN settings ELSE GetProp(settings, EWS_URL_SETTING)

(***************************************************************************)
(* Errors and the race coordinator (bluebird's Promise.any).               *)
(***************************************************************************)
\* the rejection of Promise.any: one reason per rejected promise
AggregateError(reasons) == [t |-> "error", name |-> "AggregateError", reasons |-> reasons]

NoReason == "none"
PendingRace(n) == [st |-> "pending", value |-> Undefined, reasons |-> [i \in 1..n |-> NoReason]]

\* AnySettle where a later fulfilment replaces the value of a settled race
AnySettle_LastWins(r, i, res) ==
  IF res.ok THEN [r EXCEPT !.st = "fulfilled", !.value = res.v]
  ELSE IF r.st # "pending" THEN r
  ELSE LET rs == [r.reasons EXCEPT ![i] = res.v]
       IN IF \A j \in DOMAIN rs : rs[j] # NoReason
          THEN [r EXCEPT !.st = "rejected", !.reasons = rs]
          ELSE [r EXCEPT !.reasons = rs]

\* AnySettle that only ever fulfils: rejections are recorded and the race
\* stays pending when every input has rejected
AnySettle_NeverRejects(r, i, res) ==
  IF r.st # "pending" THEN r
  ELSE IF res.ok THEN [r EXCEPT !.st = "fulfilled", !.value = res.v]
  ELSE [r EXCEPT !.reasons = [r.reasons EXCEPT ![i] = res.v]]

\* AnySettle that rejects on the first rejection, as Promise.all would
AnySettle_FirstFailureRejects(r, i, res) ==
  IF r.st # "pending" THEN r
  ELSE IF res.ok THEN [r EXCEPT !.st = "fulfilled", !.value = res.v]
  ELSE [r EXCEPT !.st = "rejected", !.reasons = [r.reasons EXCEPT ![i] = res.v]]

\* Promise.any's reaction to the settlement of its i-th input: the first
\* fulfilment fulfils it, the last outstanding rejection rejects it, and a
\* settled race ignores every later settlement
AnySettle(r, i, res) ==
  IF r.st # "pending" THEN r
  ELSE IF res.ok THEN [r EXCEPT !.st = "fulfilled", !.value = res.v]
  ELSE LET rs == [r.reasons EXCEPT ![i] = res.v]
       IN IF \A j \in DOMAIN rs : rs[j] # NoReason
          THEN [r EXCEPT !.st = "rejected", !.reasons = rs]
          ELSE [r EXCEPT !.reasons = rs]

(***************************************************************************)
(* State of one discovery call.                                            *)
(***************************************************************************)
VARIABLES
  params,        \* the caller's params object and whether a callback was given
  pc,            \* the handler of the promise chain that runs next
  zone,          \* the SRV records the DNS holds for the SMTP domain
  lookup,        \* the SRV lookup: "none", "pending", "ok" or "error"
  dnsQueries,    \* the names looked up so far
  otherDomains,  \* the value queryDns resolved with
  domains,       \* the candidate domains
  requestBody,   \* the SOAP request of the call
  attempts,      \* the promises array of autodiscoverDomains
  race,          \* the promise returned by Promise.any
  firstSuccess,  \* the first attempt that was fulfilled, with its body
  cancelled,     \* the attempts whose cancel() was called
  chain,         \* the value or error handed to the next handler
  cbCalls,       \* the invocations of the callback, in order
  outcome,       \* the promise returned to the caller
  soap,          \* input and output of the SOAP builder taken alone
  fn             \* input and outputs of a helper function taken alone

vars == << params, pc, zone, lookup, dnsQueries, otherDomains, domains, requestBody,
           attempts, race, firstSuccess, cancelled, chain, cbCalls, outcome, soap, fn >>

QueryDnsOptions == {Undefined, Bool(TRUE), Bool(FALSE)}
SettingsOptions == {Undefined, Arr(<<>>), Arr(<<Str(EWS_VERSION_SETTING)>>)}

ParamsSet ==
  [ emailAddress : Emails,
    password : {Str("pass")},
    username : {Undefined},
    queryDns : QueryDnsOptions,
    settings : SettingsOptions,
    cb : BOOLEAN ]

SrvRecord(n) == [name |-> n, port |-> 443]
\* the zone holds no SRV record, or one: one or two candidate domains, hence
\* three or six attempts in the race
DnsZones == {<<>>} \cup { <<SrvRecord(n)>> : n \in DnsNames }

DefaultParams ==
  [ emailAddress |-> <<"u", "@", "a">>, password |-> Str("pass"), username |-> Undefined,
    queryDns |-> Undefined, settings |-> Undefined, cb |-> FALSE ]

\* The calls explored: every params object against a zone without records, and
\* every value of queryDns against every zone
Explored(p, z) ==
  \/ z = <<>>
  \/ p = [DefaultParams EXCEPT !.queryDns = p.queryDns]

NoFn == [stage |-> "off", in |-> Undefined, out |-> Undefined, again |-> Undefined]
NoSoap == [stage |-> "off", emailAddress |-> <<>>, settings |-> Undefined, body |-> Undefined]
Pending == [st |-> "pending", v |-> Undefined]

Init ==
  /\ params \in ParamsSet
  /\ zone \in DnsZones
  /\ Explored(params, zone)
  /\ pc = "init"
  /\ lookup = "none"
  /\ dnsQueries = <<>>
  /\ otherDomains = <<>>
  /\ domains = <<>>
  /\ requestBody = Undefined
  /\ attempts = <<>>
  /\ race = PendingRace(0)
  /\ firstSuccess = Undefined
  /\ cancelled = {}
  /\ chain = Ok(Undefined)
  /\ cbCalls = <<>>
  /\ outcome = Pending
  /\ soap = NoSoap
  /\ fn = NoFn

\* var query = params.queryDns || true
QueryOf(p) == JsOr(p.queryDns, Bool(TRUE))

\* var smtpDomain = emailAddress.substr(emailAddress.indexOf("@") + 1)
SmtpDomainOf(emailAddress) == Substr(emailAddress, IndexOf(emailAddress, "@") + 1)

\* var username = params.username || emailAddress
UsernameOf(p) == JsOr(p.username, Str(p.emailAddress))

\* The synchronous prologue of module.exports
Discover ==
  /\ pc = "init"
  /\ domains' = <<SmtpDomainOf(params.emailAddress)>>
  /\ IF Truthy(QueryOf(params))
     THEN /\ dnsQueries' = Append(dnsQueries, SrvName(SmtpDomainOf(params.emailAddress)))
          /\ lookup' = "pending"
          /\ pc' = "dns"
          /\ UNCHANGED otherDomains
     ELSE /\ otherDomains' = <<>>
          /\ pc' = "expand"
          /\ UNCHANGED << dnsQueries, lookup >>
  /\ UNCHANGED << params, zone, requestBody, attempts, race, firstSuccess, cancelled,
                  chain, cbCalls, outcome, soap, fn >>

\* The resolver answers the SRV query with the records of the zone
DnsAnswer ==
  /\ pc = "dns"
  /\ lookup = "pending"
  /\ lookup' = "ok"
  /\ otherDomains' = queryDns([ok |-> TRUE, records |-> zone])
  /\ pc' = "expand"
  /\ UNCHANGED << params, zone, dnsQueries, domains, requestBody, attempts, race,
                  firstSuccess, cancelled, chain, cbCalls, outcome, soap, fn >>

\* The SRV query fails (NXDOMAIN, timeout, resolver error)
DnsError ==
  /\ pc = "dns"
  /\ lookup = "pending"
  /\ lookup' = "error"
  /\ otherDomains' = queryDns([ok |-> FALSE, records |-> <<>>])
  /\ pc' = "expand"
  /\ UNCHANGED << params, zone, dnsQueries, domains, requestBody, attempts, race,
                  firstSuccess, cancelled, chain, cbCalls, outcome, soap, fn >>

(***************************************************************************)
(* The endpoint race.                                                      *)
(***************************************************************************)
SvcPath == "/autodiscover/autodiscover.svc"
Url(scheme, host) == [scheme |-> scheme, host |-> host, path |-> SvcPath]
Locations == { Url("https", <<"r">>) }
\* what the GET of a redirect-then-post attempt may be answered with
GetResponses ==
  { [statusCode |-> 302, location |-> l] : l \in Locations }
    \cup { [statusCode |-> 200, location |-> Undefined] }

Attempt(method, uri) == [method |-> method, uri |-> uri, st |-> "pending", location |-> Undefined]

\* Only the two direct POSTs for one domain
AttemptsFor_NoRedirect(domain) ==
  << Attempt("POST", Url("https", domain)),
     Attempt("POST", Url("https", <<"autodiscover.">> \o domain)) >>

\* The three promises pushed for one domain
AttemptsFor(domain) ==
  << Attempt("POST", Url("https", domain)),
     Attempt("POST", Url("https", <<"autodiscover.">> \o domain)),
     Attempt("GET", Url("http", <<"autodiscover.">> \o domain)) >>

\* domains.forEach(...): the promises array, three per domain in order
RECURSIVE LaunchAll(_)
LaunchAll(ds) == IF ds = <<>> THEN <<>> ELSE AttemptsFor(Head(ds)) \o LaunchAll(Tail(ds))

\* The race started without waiting for the SRV lookup
Expand_NoWait ==
  /\ pc \in {"dns", "expand"}
  /\ domains' = domains \o otherDomains
  /\ requestBody' = createAutodiscoverSoap(params.emailAddress, params.settings)
  /\ attempts' = LaunchAll(domains')
  /\ race' = PendingRace(Len(attempts'))
  /\ pc' = "race"
  /\ UNCHANGED << params, zone, lookup, dnsQueries, otherDomains, firstSuccess, cancelled,
                  chain, cbCalls, outcome, soap, fn >>

\* The first .then of module.exports: extend the candidates and start the race
Expand ==
  /\ pc = "expand"
  /\ domains' = domains \o otherDomains
  /\ requestBody' = createAutodiscoverSoap(params.emailAddress, params.settings)
  /\ attempts' = LaunchAll(domains')
  /\ race' = PendingRace(Len(attempts'))
  /\ pc' = "race"
  /\ UNCHANGED << params, zone, lookup, dnsQueries, otherDomains, firstSuccess, cancelled,
                  chain, cbCalls, outcome, soap, fn >>

\* The handlers of the chain run back to back in one drain of bluebird's
\* queue (xml2js parses synchronously), so a network completion is delivered
\* only while the chain waits for the race or after it has ended
Delivering == pc \in {"race", "done"}

\* a POST is in flight for attempt i: its own, or the one that follows a 302
PostInFlight(i) ==
  \/ attempts[i].method = "POST" /\ attempts[i].st = "pending"
  \/ attempts[i].method = "GET" /\ attempts[i].st = "redirected"

InFlight(i) == attempts[i].st \in {"pending", "redirected"}

\* The settlement of attempt i reaches Promise.any; a settlement of the race
\* hands the body to xmlToJson or the aggregate error to the catch handler
Settle(i, res) ==
  /\ race' = AnySettle(race, i, res)
  /\ IF race.st = "pending" /\ race'.st = "fulfilled"
     THEN pc' = "parse" /\ chain' = Ok(race'.value)
     ELSE IF race.st = "pending" /\ race'.st = "rejected"
     THEN pc' = "catch" /\ chain' = Err(AggregateError(race'.reasons))
     ELSE UNCHANGED << pc, chain >>

\* A POST is answered with a 2xx status and a body
PostSucceed(i, body) ==
  /\ Delivering
  /\ i \in DOMAIN attempts
  /\ PostInFlight(i)
  /\ attempts' = [attempts EXCEPT ![i].st = "ok", ![i].location = Undefined]
  /\ firstSuccess' = IF \E j \in DOMAIN attempts : attempts[j].st = "ok"
                     THEN firstSuccess
                     ELSE [t |-> "first", i |-> i, body |-> body]
  /\ Settle(i, Ok(body))
  /\ UNCHANGED << params, zone, lookup, dnsQueries, otherDomains, domains, requestBody,
                  cancelled, cbCalls, outcome, soap, fn >>

\* A POST fails: transport error or a status outside 2xx
PostFail(i) ==
  /\ Delivering
  /\ i \in DOMAIN attempts
  /\ PostInFlight(i)
  /\ attempts' = [attempts EXCEPT ![i].st = "RequestError", ![i].location = Undefined]
  /\ Settle(i, Err("RequestError"))
  /\ UNCHANGED << params, zone, lookup, dnsQueries, otherDomains, domains, requestBody,
                  firstSuccess, cancelled, cbCalls, outcome, soap, fn >>

\* The GET handler without the status test: every answer starts the POST
GetRespond_AnyStatus(i, response) ==
  /\ Delivering
  /\ i \in DOMAIN attempts
  /\ attempts[i].method = "GET" /\ attempts[i].st = "pending"
  /\ attempts' = [attempts EXCEPT ![i].st = "redirected",
                                  ![i].location = response.location]
  /\ UNCHANGED << race, pc, chain >>
  /\ UNCHANGED << params, zone, lookup, dnsQueries, otherDomains, domains, requestBody,
                  firstSuccess, cancelled, cbCalls, outcome, soap, fn >>

\* The GET of a redirect-then-post attempt is answered: a 302 starts the POST
\* to its Location, any other status fails the attempt
GetRespond(i, response) ==
  /\ Delivering
  /\ i \in DOMAIN attempts
  /\ attempts[i].method = "GET" /\ attempts[i].st = "pending"
  /\ IF response.statusCode # 302
     THEN /\ attempts' = [attempts EXCEPT ![i].st = "Error"]
          /\ Settle(i, Err("Error"))
     ELSE /\ attempts' = [attempts EXCEPT ![i].st = "redirected",
                                          ![i].location = response.location]
          /\ UNCHANGED << race, pc, chain >>
  /\ UNCHANGED << params, zone, lookup, dnsQueries, otherDomains, domains, requestBody,
                  firstSuccess, cancelled, cbCalls, outcome, soap, fn >>

\* The GET fails in transport
GetFail(i) ==
  /\ Delivering
  /\ i \in DOMAIN attempts
  /\ attempts[i].method = "GET" /\ attempts[i].st = "pending"
  /\ attempts' = [attempts EXCEPT ![i].st = "RequestError"]
  /\ Settle(i, Err("RequestError"))
  /\ UNCHANGED << params, zone, lookup, dnsQueries, otherDomains, domains, requestBody,
                  firstSuccess, cancelled, cbCalls, outcome, soap, fn >>

(***************************************************************************)
(* The rest of the promise chain.                                          *)
(***************************************************************************)
\* .then(xmlToJson)
Parse ==
  /\ pc = "parse"
  /\ chain' = xmlToJson(chain.v)
  /\ pc' = IF chain'.ok THEN "extract" ELSE "catch"
  /\ UNCHANGED << params, zone, lookup, dnsQueries, otherDomains, domains, requestBody,
                  attempts, race, firstSuccess, cancelled, cbCalls, outcome, soap, fn >>

\* .then(result => ...) of autodiscoverDomains
Extract ==
  /\ pc = "extract"
  /\ chain' = ExtractSettings(chain.v)
  /\ pc' = IF chain'.ok THEN "shape" ELSE "catch"
  /\ UNCHANGED << params, zone, lookup, dnsQueries, otherDomains, domains, requestBody,
                  attempts, race, firstSuccess, cancelled, cbCalls, outcome, soap, fn >>

CbCall(err, result) == [err |-> err, result |-> result]

\* .then(settings => ...) of module.exports; the callback may throw
Shape(cbThrows) ==
  /\ pc = "shape"
  /\ cbThrows => params.cb
  /\ LET result == ShapeResult(params.settings, chain.v)
     IN /\ cbCalls' = IF params.cb THEN Append(cbCalls, CbCall(Null, result)) ELSE cbCalls
        /\ IF cbThrows
           THEN /\ chain' = Err(Error("CallbackError"))
                /\ pc' = "catch"
                /\ UNCHANGED outcome
           ELSE /\ outcome' = [st |-> "resolved", v |-> result]
                /\ pc' = "done"
                /\ UNCHANGED chain
  /\ UNCHANGED << params, zone, lookup, dnsQueries, otherDomains, domains, requestBody,
                  attempts, race, firstSuccess, cancelled, soap, fn >>

\* .catch(errors => ...) of module.exports; the callback may throw
Catch(cbThrows) ==
  /\ pc = "catch"
  /\ cbThrows => params.cb
  /\ cbCalls' = IF params.cb THEN Append(cbCalls, CbCall(chain.v, Undefined)) ELSE cbCalls
  /\ outcome' = [st |-> "rejected",
                 v |-> IF cbThrows THEN Error("CallbackError") ELSE chain.v]
  /\ pc' = "done"
  /\ UNCHANGED << params, zone, lookup, dnsQueries, otherDomains, domains, requestBody,
                  attempts, race, firstSuccess, cancelled, chain, soap, fn >>

Next ==
  \/ Discover
  \/ DnsAnswer
  \/ DnsError
  \/ Expand
  \/ \E i \in DOMAIN attempts, body \in Bodies : PostSucceed(i, body)
  \/ \E i \in DOMAIN attempts : PostFail(i)
  \/ \E i \in DOMAIN attempts, response \in GetResponses : GetRespond(i, response)
  \/ \E i \in DOMAIN attempts : GetFail(i)
  \/ Parse
  \/ Extract
  \/ \E cbThrows \in BOOLEAN : Shape(cbThrows)
  \/ \E cbThrows \in BOOLEAN : Catch(cbThrows)

Spec == Init /\ [][Next]_vars

(***************************************************************************)
(* The call under the hypothesis that the DNS lookup and every HTTP        *)
(* request complete and that the promise library runs every queued         *)
(* handler: no step that is possible is postponed for ever.                *)
(***************************************************************************)
\* queryDns is left out of the call: QueryOf gives the same query for each of
\* its values
InitLive == Init /\ params.queryDns = Undefined

LiveSpec == InitLive /\ [][Next]_vars /\ WF_vars(Next)

(***************************************************************************)
(* The SOAP builder taken alone: any requested-settings value, rendered.   *)
(***************************************************************************)
SettingNames == {EWS_URL_SETTING, EWS_VERSION_SETTING, "EwsSupportedSchemas"}
SoapEmails == { <<"u", "@", "a">>, <<"v", "@", "b">> }
\* omitted, a single string, or an array of at most MaxSettings names
SoapSettings ==
  {Undefined} \cup {Str(n) : n \in SettingNames}
    \cup {Arr([i \in 1..Len(ns) |-> Str(ns[i])]) : ns \in SeqsUpTo(SettingNames, MaxSettings)}

InitSoap ==
  /\ params = DefaultParams
  /\ zone = <<>>
  /\ pc = "off"
  /\ lookup = "none"
  /\ dnsQueries = <<>>
  /\ otherDomains = <<>>
  /\ domains = <<>>
  /\ requestBody = Undefined
  /\ attempts = <<>>
  /\ race = PendingRace(0)
  /\ firstSuccess = Undefined
  /\ cancelled = {}
  /\ chain = Ok(Undefined)
  /\ cbCalls = <<>>
  /\ outcome = Pending
  /\ \E e \in SoapEmails, st \in SoapSettings :
       soap = [stage |-> "in", emailAddress |-> e, settings |-> st, body |-> Undefined]
  /\ fn = NoFn

Render ==
  /\ soap.stage = "in"
  /\ soap' = [soap EXCEPT !.stage = "out",
                          !.body = createAutodiscoverSoap(soap.emailAddress, soap.settings)]
  /\ UNCHANGED << params, pc, zone, lookup, dnsQueries, otherDomains, domains, requestBody,
                  attempts, race, firstSuccess, cancelled, chain, cbCalls, outcome, fn >>

NextSoap == Render

SpecSoap == InitSoap /\ [][NextSoap]_vars

\* the call itself is not running
IdleCall ==
  /\ params = DefaultParams
  /\ zone = <<>>
  /\ pc = "off"
  /\ lookup = "none"
  /\ dnsQueries = <<>>
  /\ otherDomains = <<>>
  /\ domains = <<>>
  /\ requestBody = Undefined
  /\ attempts = <<>>
  /\ race = PendingRace(0)
  /\ firstSuccess = Undefined
  /\ cancelled = {}
  /\ chain = Ok(Undefined)
  /\ cbCalls = <<>>
  /\ outcome = Pending
  /\ soap = NoSoap

CallVars == << params, pc, zone, lookup, dnsQueries, otherDomains, domains, requestBody,
               attempts, race, firstSuccess, cancelled, chain, cbCalls, outcome, soap >>

(***************************************************************************)
(* removePrefix taken alone: any name, normalised once and once more.      *)
(***************************************************************************)
NameChars == {"a", "F", ":"}
PrefixedFoo == <<"a", ":", "F", "o", "o">>
PlainBar == <<"B", "a", "r">>
Names == SeqsUpTo(NameChars, MaxNameLen) \cup {PrefixedFoo, PlainBar}

InitPrefix ==
  /\ IdleCall
  /\ \E n \in Names : fn = [stage |-> "in", in |-> n, out |-> <<>>, again |-> <<>>]

\* xml2js applies the name processor to a tag or attribute name
Normalise ==
  /\ fn.stage = "in"
  /\ fn' = [fn EXCEPT !.stage = "once", !.out = removePrefix(fn.in)]
  /\ UNCHANGED CallVars

\* the processor applied to a name that is already normalised
NormaliseAgain ==
  /\ fn.stage = "once"
  /\ fn' = [fn EXCEPT !.stage = "twice", !.again = removePrefix(fn.out)]
  /\ UNCHANGED CallVars

NextPrefix == Normalise \/ NormaliseAgain

SpecPrefix == InitPrefix /\ [][NextPrefix]_vars

(***************************************************************************)
(* The extractor taken alone: any list of userSetting entries, folded.     *)
(***************************************************************************)
EntryValues == {"x", "y"}
Entries == { Entry(n, v) : n \in {EWS_URL_SETTING, EWS_VERSION_SETTING}, v \in EntryValues }
\* a single entry parses to an object, several entries to an array
Trees ==
  { [path |-> TRUE, userSetting |-> [t |-> "object", v |-> e]] : e \in Entries }
    \cup { [path |-> TRUE, userSetting |-> Arr(es)] :
             es \in {q \in SeqsUpTo(Entries, MaxEntries) : Len(q) >= 2} }

InitExtract ==
  /\ IdleCall
  /\ \E tr \in Trees : fn = [stage |-> "in", in |-> tr, out |-> Undefined, again |-> Undefined]

ExtractFold ==
  /\ fn.stage = "in"
  /\ fn' = [fn EXCEPT !.stage = "out", !.out = ExtractSettings(fn.in)]
  /\ UNCHANGED CallVars

NextExtract == ExtractFold

SpecExtract == InitExtract /\ [][NextExtract]_vars


(***************************************************************************)
(* The call up to the launch of the race: any address, password and zone.  *)
(***************************************************************************)
ExpandEmails == { <<"u", "@", "a">>, <<"u", "a">>, <<"u", "@", "a", "@", "b">> }
ExpandNames == { <<"a">>, <<"b">> }
ExpandZones ==
  { [i \in 1..Len(ns) |-> SrvRecord(ns[i])] : ns \in SeqsUpTo(ExpandNames, MaxRecords) }

InitExpand ==
  /\ params \in [ emailAddress : ExpandEmails,
                  password : {Str("pass"), Undefined},
                  username : {Undefined},
                  queryDns : QueryDnsOptions,
                  settings : {Undefined},
                  cb : {FALSE} ]
  /\ zone \in ExpandZones
  /\ pc = "init"
  /\ lookup = "none"
  /\ dnsQueries = <<>>
  /\ otherDomains = <<>>
  /\ domains = <<>>
  /\ requestBody = Undefined
  /\ attempts = <<>>
  /\ race = PendingRace(0)
  /\ firstSuccess = Undefined
  /\ cancelled = {}
  /\ chain = Ok(Undefined)
  /\ cbCalls = <<>>
  /\ outcome = Pending
  /\ soap = NoSoap
  /\ fn = NoFn

NextExpand ==
  \/ Discover
  \/ DnsAnswer
  \/ DnsError
  \/ Expand

SpecExpand == InitExpand /\ [][NextExpand]_vars


(***************************************************************************)
(* Properties.                                                             *)
(***************************************************************************)
FailureKinds == {"RequestError", "Error"}
Failed(i) == attempts[i].st \in FailureKinds
Succeeded(i) == attempts[i].st = "ok"
AllFailed == attempts # <<>> /\ \A i \in DOMAIN attempts : Failed(i)
SmtpDomain == SmtpDomainOf(params.emailAddress)

\* C1: if some attempt has been fulfilled, the race is fulfilled with the body
\* of the attempt that was fulfilled first, and a settled race never changes:
\* no later fulfilment or rejection of another attempt rewrites it.
C1_FirstSuccessWins ==
  /\ [](firstSuccess # Undefined =>
          /\ race.st = "fulfilled"
          /\ race.value = firstSuccess.body)
  /\ [][race.st # "pending" => race' = race]_vars

\* the race is won, and later a second attempt succeeded and a third failed
C1_Witness ==
  /\ race.st = "fulfilled"
  /\ firstSuccess # Undefined
  /\ \E j \in DOMAIN attempts : j # firstSuccess.i /\ Succeeded(j)
  /\ \E j \in DOMAIN attempts : Failed(j)

\* C2: once the race is won, every attempt still in flight has been signalled
\* for cancellation by the time the call has run its handlers, whatever the
\* parse and the extraction of the winning body did.
C2_LosersCancelled ==
  (race.st = "fulfilled" /\ pc = "done") =>
    \A i \in DOMAIN attempts : InFlight(i) => i \in cancelled

\* C3: the race is rejected only when every one of the 3 x |domains| attempts
\* has failed (none in flight, none fulfilled), and then the call fails with the
\* aggregate error that carries each attempt's own failure: it is the error
\* handed to the catch handler and to the callback, and the rejection of the
\* promise unless the callback itself threw.
C3_AllFailedAggregate ==
  LET agg == AggregateError([i \in DOMAIN attempts |-> attempts[i].st])
  IN /\ race.st = "rejected" => AllFailed /\ Len(attempts) = 3 * Len(domains)
     /\ AllFailed =>
          /\ race.st = "rejected"
          /\ pc \in {"catch", "done"}
          /\ chain = Err(agg)
     /\ (AllFailed /\ pc = "done") =>
          /\ outcome.st = "rejected"
          /\ outcome.v \in {agg, Error("CallbackError")}
          /\ params.cb => cbCalls = <<CbCall(agg, Undefined)>>
          /\ (params.cb \/ outcome.v = agg)

\* every attempt of two candidate domains failed and the call was rejected
C3_Witness ==
  /\ AllFailed
  /\ Len(attempts) = 6
  /\ pc = "done"
  /\ outcome.st = "rejected"
  /\ outcome.v.name = "AggregateError"
  /\ \E i \in DOMAIN attempts : outcome.v.reasons[i] = "Error"

\* C4: with queryDns explicitly false no DNS lookup is issued and the candidate
\* list is just the SMTP domain; with queryDns omitted the lookup is issued.
C4_ExplicitFalseDisablesDns ==
  /\ params.queryDns = Bool(FALSE) =>
       /\ dnsQueries = <<>>
       /\ pc # "init" => domains = <<SmtpDomain>>
  /\ (params.queryDns = Undefined /\ pc # "init") => dnsQueries # <<>>

\* C5: when the SRV lookup fails, the failure is not surfaced: queryDns gives
\* no domain, the candidate list is exactly the SMTP domain, the race is run on
\* its three endpoints, and no error the call delivers comes from the lookup.
C5_DnsFailureDegrades ==
  lookup = "error" =>
    /\ otherDomains = <<>>
    /\ domains = <<SmtpDomain>>
    /\ pc # "expand" => attempts # <<>> /\ \A i \in 1..3 : attempts[i] = 
         [AttemptsFor(SmtpDomain)[i] EXCEPT !.st = attempts[i].st,
                                            !.location = attempts[i].location]
    /\ Len(attempts) \in {0, 3}
    /\ ~chain.ok => chain.v.name \in {"AggregateError", "ParseError", "TypeError",
                                       "CallbackError"}
    /\ \A k \in DOMAIN cbCalls : cbCalls[k].err # Null =>
         cbCalls[k].err.name \in {"AggregateError", "ParseError", "TypeError",
                                  "CallbackError"}

\* the lookup failed although the zone holds a record, and the call resolved
C5_Witness ==
  /\ lookup = "error"
  /\ zone # <<>>
  /\ pc = "done"
  /\ outcome.st = "resolved"

\* C6: a resolved call delivers a bare value when settings is omitted or is an
\* empty array, and the settings map when attribute names were requested.
C6_ShapedByIntent ==
  outcome.st = "resolved" =>
    IF params.settings = Undefined \/ params.settings = Arr(<<>>)
    THEN outcome.v.t # "map"
    ELSE outcome.v.t = "map"

\* C7: the callback is invoked at most once, exactly once by the time the call
\* has ended, and no invocation carries both an error and a result; this holds
\* whatever the callback does, a callback that throws included.
C7_CallbackOnce ==
  /\ Len(cbCalls) <= 1
  /\ (pc = "done" /\ params.cb) => Len(cbCalls) = 1
  /\ \A k \in DOMAIN cbCalls : cbCalls[k].err = Null \/ cbCalls[k].result = Undefined

\* C8: a resolved call delivers the endpoint URL: a map result has the
\* ExternalEwsUrl key and a bare result is a string.
C8_ResultCarriesUrl ==
  outcome.st = "resolved" =>
    IF outcome.v.t = "map"
    THEN EWS_URL_SETTING \in DOMAIN outcome.v.v
    ELSE outcome.v.t = "string"

\* the number of entries of a sequence equal to x
RECURSIVE Count(_, _)
Count(seq, x) ==
  IF seq = <<>> THEN 0
  ELSE (IF Head(seq) = x THEN 1 ELSE 0) + Count(Tail(seq), x)

\* the names the caller supplied: none when settings is omitted
Supplied(settings) ==
  IF settings = Undefined THEN <<>>
  ELSE LET list == ArrayConcat(settings) IN [i \in 1..Len(list) |-> list[i].v]

\* C9 as stated: the rendered body has exactly one Setting entry naming
\* ExternalEwsUrl for every requested-settings input.
C9_ExactlyOneUrlSetting ==
  soap.stage = "out" => Count(soap.body.requestedSettings, EWS_URL_SETTING) = 1

\* C9 amended: the rendered body has as many Setting entries naming
\* ExternalEwsUrl as the caller's list names it, and one if the list does not
\* name it; so exactly one when the list omits it or names it once.
C9_UrlSettingCount ==
  soap.stage = "out" =>
    LET asked == Count(Supplied(soap.settings), EWS_URL_SETTING)
        rendered == Count(soap.body.requestedSettings, EWS_URL_SETTING)
    IN /\ rendered = IF asked = 0 THEN 1 ELSE asked
       /\ asked <= 1 => rendered = 1

\* a list naming ExternalEwsUrl twice was rendered with two such entries
C9_Witness ==
  /\ soap.stage = "out"
  /\ soap.settings.t = "array"
  /\ Count(Supplied(soap.settings), EWS_URL_SETTING) = 2
  /\ Count(soap.body.requestedSettings, EWS_URL_SETTING) = 2

\* C10: the Setting entries are the supplied names in the supplied order with
\* ExternalEwsUrl appended if missing; with settings omitted or empty the one
\* entry is ExternalEwsUrl.
C10_SettingsAsSupplied ==
  soap.stage = "out" =>
    LET names == Supplied(soap.settings)
    IN soap.body.requestedSettings =
         IF Count(names, EWS_URL_SETTING) = 0 THEN Append(names, EWS_URL_SETTING)
         ELSE names

\* the userSetting entries of a tree in document order: a single object is a
\* list of one
EntriesOf(tree) ==
  IF tree.userSetting.t = "array" THEN tree.userSetting.v ELSE <<tree.userSetting.v>>

\* C17: the extractor yields a map with exactly one key per distinct entry
\* name; a single scalar entry counts as a one-element list; every key maps to
\* the value of the last entry of that name in document order.
C17_FoldLastWins ==
  fn.stage = "out" =>
    LET list == EntriesOf(fn.in)
        last(k) == CHOOSE i \in 1..Len(list) :
                     /\ list[i].name = k
                     /\ \A j \in (i + 1)..Len(list) : list[j].name # k
    IN /\ fn.out.ok
       /\ fn.out.v.t = "map"
       /\ DOMAIN fn.out.v.v = {list[i].name : i \in 1..Len(list)}
       /\ \A k \in DOMAIN fn.out.v.v : fn.out.v.v[k] = list[last(k)].value
       /\ fn.in.userSetting.t = "object" =>
            fn.out.v.v = [k \in {fn.in.userSetting.v.name} |-> fn.in.userSetting.v.value]

\* a list naming one setting twice with different values was folded
C17_Witness ==
  /\ fn.stage = "out"
  /\ fn.in.userSetting.t = "array"
  /\ \E i, j \in 1..Len(fn.in.userSetting.v) :
       /\ i < j
       /\ fn.in.userSetting.v[i].name = fn.in.userSetting.v[j].name
       /\ fn.in.userSetting.v[i].value # fn.in.userSetting.v[j].value

\* C18: removePrefix maps a:Foo to foo and Bar to bar, and normalising a
\* normalised name changes nothing, for every name: no colon, one, several,
\* nothing after the colon.
C18_RemovePrefixIdempotent ==
  /\ (fn.stage # "in" /\ fn.in = PrefixedFoo) => fn.out = <<"f", "o", "o">>
  /\ (fn.stage # "in" /\ fn.in = PlainBar) => fn.out = <<"b", "a", "r">>
  /\ fn.stage = "twice" => fn.again = fn.out

\* a name with two colons and text between them was normalised twice
C18_Witness ==
  /\ fn.stage = "twice"
  /\ Count(fn.in, ":") >= 2
  /\ fn.out # <<>>
  /\ fn.out # fn.in

\* the address has no "@", or the password is missing
InvalidInput(p) == Count(p.emailAddress, "@") = 0 \/ p.password = Undefined

\* C11: a call whose address has no "@" or whose password is missing issues no
\* DNS lookup and no HTTP request, and fails once it has started.
C11_InvalidInputRejected ==
  InvalidInput(params) =>
    /\ dnsQueries = <<>>
    /\ attempts = <<>>
    /\ pc \notin {"init", "catch"} => outcome.st = "rejected"

\* the part of an address after its only "@"
AfterAt(emailAddress) ==
  LET at == CHOOSE i \in 1..Len(emailAddress) : emailAddress[i] = "@"
  IN SubSeq(emailAddress, at + 1, Len(emailAddress))

\* the targets of the zone's SRV records, in the resolver's order
ZoneNames == [i \in 1..Len(zone) |-> zone[i].name]

\* C16: for an address with one "@", the candidates handed to the race are the
\* part after the "@" followed by the SRV targets in the resolver's order, not
\* deduplicated; with DNS disabled or failed they are just that domain.
C16_CandidateList ==
  (Count(params.emailAddress, "@") = 1 /\ pc = "race") =>
    /\ domains = <<AfterAt(params.emailAddress)>> \o
         (IF params.queryDns = Bool(FALSE) \/ lookup # "ok" THEN <<>> ELSE ZoneNames)
    /\ Len(attempts) = 3 * Len(domains)
    /\ \A j \in 1..Len(domains) : attempts[3 * j - 2].uri.host = domains[j]

\* the bodies that parse and hold the whole fixed path
ValidBody(b) == b.t = "xml" /\ b.path

\* what the call delivers for a valid winning body: a function of the body and
\* of the requested settings alone
Delivered(settings, b) == ShapeResult(settings, ExtractSettings(xmlToJson(b).v).v)

\* C12: when exactly one attempt has succeeded, with a valid body, the result
\* the call delivers depends on that body and the requested settings only: not
\* on which attempt it was, nor on the order in which the others failed.
C12_RaceDeterminism ==
  ( /\ pc = "done"
    /\ Cardinality({i \in DOMAIN attempts : Succeeded(i)}) = 1
    /\ ValidBody(firstSuccess.body) ) =>
      LET result == Delivered(params.settings, firstSuccess.body)
      IN /\ params.cb => cbCalls[1] = CbCall(Null, result)
         /\ \/ outcome = [st |-> "resolved", v |-> result]
            \/ params.cb /\ outcome = [st |-> "rejected", v |-> Error("CallbackError")]

\* the only success was not the first attempt, came after failures of others,
\* and the call resolved
C12_Witness ==
  /\ pc = "done"
  /\ outcome.st = "resolved"
  /\ Len(attempts) = 6
  /\ Cardinality({i \in DOMAIN attempts : Succeeded(i)}) = 1
  /\ firstSuccess.i = 5
  /\ \A i \in DOMAIN attempts : i # 5 => Failed(i)

\* C13: when the winning body is not XML or lacks a node of the fixed path, no
\* result is ever delivered, the call ends rejected with the parse or the
\* extraction error, and only the winning body is ever handed to the parser.
C13_MalformedWinnerFails ==
  (firstSuccess # Undefined /\ ~ValidBody(firstSuccess.body)) =>
    /\ outcome.st # "resolved"
    /\ \A k \in DOMAIN cbCalls : cbCalls[k].err # Null
    /\ pc = "parse" => chain = Ok(firstSuccess.body)
    /\ pc = "done" =>
         /\ outcome.st = "rejected"
         /\ outcome.v.name \in
              {IF firstSuccess.body.t = "xml" THEN "TypeError" ELSE "ParseError",
               "CallbackError"}
         /\ outcome.v.name = "CallbackError" => params.cb

\* a body without the path won, a valid body arrived later, the call failed
C13_Witness ==
  /\ pc = "done"
  /\ firstSuccess # Undefined
  /\ firstSuccess.body = NoPath
  /\ outcome.st = "rejected"
  /\ outcome.v.name = "TypeError"
  /\ \E j \in DOMAIN attempts : j # firstSuccess.i /\ Succeeded(j)

\* C14: once launched, the attempts are exactly three per candidate domain
\* (POST https://d, POST https://autodiscover.d, GET http://autodiscover.d);
\* they are all launched in one step, each pending; afterwards none is added
\* and a settled attempt is never started again.
C14_ThreePerDomainNoRetry ==
  /\ [](pc \notin {"init", "dns", "expand"} =>
          /\ Len(attempts) = 3 * Len(domains)
          /\ \A j \in 1..Len(domains) :
               /\ attempts[3 * j - 2].method = "POST"
               /\ attempts[3 * j - 2].uri = Url("https", domains[j])
               /\ attempts[3 * j - 1].method = "POST"
               /\ attempts[3 * j - 1].uri = Url("https", <<"autodiscover.">> \o domains[j])
               /\ attempts[3 * j].method = "GET"
               /\ attempts[3 * j].uri = Url("http", <<"autodiscover.">> \o domains[j]))
  /\ [][attempts = <<>> => \A i \in DOMAIN attempts' : attempts'[i].st = "pending"]_vars
  /\ [][attempts # <<>> =>
          /\ Len(attempts') = Len(attempts)
          /\ \A i \in DOMAIN attempts : ~InFlight(i) => attempts'[i] = attempts[i]]_vars

\* six attempts were launched; some failed, one succeeded
C14_Witness ==
  /\ Len(attempts) = 6
  /\ Len(domains) = 2
  /\ \E i \in DOMAIN attempts : Failed(i)
  /\ \E i \in DOMAIN attempts : Succeeded(i)

\* C15: a redirect-then-post attempt has a POST in flight only after its GET
\* was answered 302, and to that answer's Location; it succeeds only through
\* that POST; after any other status or a failed GET it stays failed and never
\* issues a POST.
C15_PostOnlyAfter302 ==
  [][\A i \in DOMAIN attempts : attempts[i].method = "GET" =>
       /\ attempts'[i].st = "redirected" =>
            /\ attempts[i].st \in {"pending", "redirected"}
            /\ attempts'[i].location \in Locations
       /\ attempts'[i].st # "redirected" => attempts'[i].location = Undefined
       /\ attempts'[i].st = "ok" => attempts[i].st \in {"redirected", "ok"}
       /\ attempts[i].st \in FailureKinds => attempts'[i] = attempts[i]]_vars

\* one redirect attempt succeeded through its POST, another got a status other
\* than 302
C15_Witness ==
  /\ Len(attempts) = 6
  /\ attempts[3].st = "ok"
  /\ attempts[6].st = "Error"

\* C19: attempts exist only after the SRV lookup has settled, and from the
\* launch on the candidate list and the request body never change.
C19_ExpandPrecedesRace ==
  /\ [](attempts # <<>> =>
          /\ lookup \in {"ok", "error"}
          /\ requestBody = createAutodiscoverSoap(params.emailAddress, params.settings))
  /\ [][attempts # <<>> => domains' = domains /\ requestBody' = requestBody]_vars

\* the lookup answered, two domains were raced and the call ended
C19_Witness ==
  /\ pc = "done"
  /\ lookup = "ok"
  /\ Len(domains) = 2
  /\ \E i \in DOMAIN attempts : InFlight(i)
\* C20: when the lookup and every request complete, the call settles: its
\* promise is resolved or rejected and a given callback has been invoked; and
\* from the first success on, the chain runs to the end without consuming the
\* completion of any attempt still in flight.
C20_EventuallySettles ==
  /\ <>(pc = "done" /\ outcome.st \in {"resolved", "rejected"}
          /\ (params.cb => cbCalls # <<>>))
  /\ [](firstSuccess # Undefined => pc \in {"parse", "extract", "shape", "catch", "done"})
  /\ [][firstSuccess # Undefined /\ pc # "done" => attempts' = attempts]_vars

\* the call resolved and called back while other attempts were still in flight
C20_Witness ==
  /\ pc = "done"
  /\ outcome.st = "resolved"
  /\ params.cb /\ cbCalls # <<>>
  /\ Len(attempts) = 3
  /\ Cardinality({i \in DOMAIN attempts : InFlight(i)}) = 2

====
